---- MODULE Spec2Model ----
(***************************************************************************)
(* Model of src/index.js, the CoilBuilder React component: its state       *)
(* hooks, its event handlers, the values every render derives from the     *)
(* hooks (wire diameter, resistance, wrap search, current, power, safety   *)
(* warning) and the Arctic Fox profile the export handler builds.          *)
(*                                                                         *)
(* JavaScript numbers are modelled as decimal floating point numbers with  *)
(* a four digit significand, round-half-even, and the special values NaN,  *)
(* Infinity and -Infinity.  Every arithmetic operation rounds its exact    *)
(* result, as IEEE-754 does with a 53 bit significand.  The exponent is    *)
(* unbounded and there is no negative zero.                                *)
(***************************************************************************)
EXTENDS Integers, Sequences, FiniteSets, TLC

(***************************************************************************)
(* JavaScript Number                                                       *)
(***************************************************************************)

\* Significands of finite non-zero numbers lie in MantMin..MantLimit-1.
MantLimit == 10^4

MantMin == 10^3

Fin(m, e) == [k |-> "fin", m |-> m, e |-> e]

Zero == Fin(0, 0)

NaN == [k |-> "nan", m |-> 0, e |-> 0]

\* s is 1 for Infinity and -1 for -Infinity
Inf(s) == [k |-> "inf", m |-> s, e |-> 0]

IsNaN(x) == x.k = "nan"

IsFinite(x) == x.k = "fin"

Sign(n) == IF n > 0 THEN 1 ELSE IF n < 0 THEN -1 ELSE 0

Abs(n) == IF n < 0 THEN -n ELSE n

\* How many digits a natural number n has beyond four
ExtraDigits(n) ==
  IF n < 10000 THEN 0
  ELSE IF n < 100000 THEN 1
  ELSE IF n < 1000000 THEN 2
  ELSE IF n < 10000000 THEN 3
  ELSE IF n < 100000000 THEN 4
  ELSE IF n < 1000000000 THEN 5
  ELSE 6

\* How many digits a natural number 0 < n < 10000 lacks to four
MissingDigits(n) ==
  IF n >= 1000 THEN 0 ELSE IF n >= 100 THEN 1 ELSE IF n >= 10 THEN 2 ELSE 3

\* The number nearest to s * (n + f) * 10^e, where 0 <= f < 1 and sticky says
\* whether f > 0; n has at least five digits whenever sticky holds.
\* Ties go to the even significand.
RoundNat(s, n, sticky, e) ==
  IF n = 0 THEN Zero
  ELSE IF n < 10000
  THEN Fin(s * n * 10^MissingDigits(n), e - MissingDigits(n))
  ELSE LET k  == ExtraDigits(n)
           p  == 10^k
           q  == n \div p
           r  == n % p
           q2 == IF (2 * r > p) \/ (2 * r = p /\ (sticky \/ q % 2 = 1))
                 THEN q + 1 ELSE q
       IN IF q2 = MantLimit THEN Fin(s * MantMin, e + k + 1)
                            ELSE Fin(s * q2, e + k)

\* The number nearest to the integer n times 10^e.
RoundInt(n, e) == RoundNat(Sign(n), Abs(n), FALSE, e)

\* a * b
FMul(a, b) ==
  IF IsNaN(a) \/ IsNaN(b) THEN NaN
  ELSE IF a.k = "inf" \/ b.k = "inf"
       THEN IF Sign(a.m) * Sign(b.m) = 0 THEN NaN ELSE Inf(Sign(a.m) * Sign(b.m))
       ELSE RoundInt(a.m * b.m, a.e + b.e)

\* a / b
FDiv(a, b) ==
  IF IsNaN(a) \/ IsNaN(b) THEN NaN
  ELSE IF a.k = "inf"
       THEN IF b.k = "inf" THEN NaN
            ELSE Inf(IF b.m < 0 THEN -Sign(a.m) ELSE Sign(a.m))
       ELSE IF b.k = "inf" THEN Zero
       ELSE IF b.m = 0 THEN (IF a.m = 0 THEN NaN ELSE Inf(Sign(a.m)))
       ELSE IF a.m = 0 THEN Zero
       ELSE LET n == Abs(a.m) * 10^5
                d == Abs(b.m)
            IN RoundNat(Sign(a.m) * Sign(b.m), n \div d, n % d # 0, a.e - b.e - 5)

\* a + b
FAdd(a, b) ==
  IF IsNaN(a) \/ IsNaN(b) THEN NaN
  ELSE IF a.k = "inf"
       THEN IF b.k = "inf" /\ b.m # a.m THEN NaN ELSE a
       ELSE IF b.k = "inf" THEN b
       ELSE IF a.m = 0 THEN b
       ELSE IF b.m = 0 THEN a
       ELSE LET hi == IF a.e >= b.e THEN a ELSE b
                lo == IF a.e >= b.e THEN b ELSE a
                diff == hi.e - lo.e
            IN IF diff > 5 THEN hi
               ELSE RoundInt(hi.m * 10^diff + lo.m, lo.e)

\* a < b
FLt(a, b) ==
  IF IsNaN(a) \/ IsNaN(b) THEN FALSE
  ELSE IF a.k = "inf" THEN a.m < 0 /\ ~(b.k = "inf" /\ b.m < 0)
  ELSE IF b.k = "inf" THEN b.m > 0
  ELSE IF Sign(a.m) # Sign(b.m) THEN Sign(a.m) < Sign(b.m)
  ELSE IF a.m = 0 THEN FALSE
  ELSE IF a.m > 0 THEN a.e < b.e \/ (a.e = b.e /\ a.m < b.m)
  ELSE a.e > b.e \/ (a.e = b.e /\ a.m < b.m)

\* a > b
FGt(a, b) == FLt(b, a)

\* a >= b
FGe(a, b) == ~IsNaN(a) /\ ~IsNaN(b) /\ ~FLt(a, b)

\* a <= b
FLe(a, b) == FGe(b, a)

\* Math.min(a, b)
MathMin(a, b) == IF IsNaN(a) \/ IsNaN(b) THEN NaN ELSE IF FLt(b, a) THEN b ELSE a

\* Math.max(a, b)
MathMax(a, b) == IF IsNaN(a) \/ IsNaN(b) THEN NaN ELSE IF FLt(a, b) THEN b ELSE a

\* Math.round(x): floor(x + 1/2)
MathRound(x) ==
  IF ~IsFinite(x) THEN x
  ELSE IF x.e >= 0 THEN x
  ELSE IF x.e < -4 THEN Zero
  ELSE LET p == 10^(-x.e) IN RoundInt((2 * x.m + p) \div (2 * p), 0)

\* Math.pow(x, 2)
MathPow2(x) == FMul(x, x)

\* ToBoolean of a number: 0 and NaN are falsy
Truthy(x) == ~IsNaN(x) /\ ~(IsFinite(x) /\ x.m = 0)

\* a || b on numbers
OrElse(a, b) == IF Truthy(a) THEN a ELSE b

\* Math.PI
MathPI == Fin(3142, -3)

\* The numeric literal n * 10^e of the source
Lit(n, e) == RoundInt(n, e)

\* Number(s) for a string s given as its sequence of characters: an optional
\* sign, digits, an optional point and digits; "" is 0, anything else NaN.
DigitValue(c) ==
  CASE c = "0" -> 0 [] c = "1" -> 1 [] c = "2" -> 2 [] c = "3" -> 3 [] c = "4" -> 4
    [] c = "5" -> 5 [] c = "6" -> 6 [] c = "7" -> 7 [] c = "8" -> 8 [] c = "9" -> 9
    [] OTHER -> -1

RECURSIVE ParseDigits(_, _, _, _)
\* acc: the digits read so far as an integer; frac: -1 before the point, else
\* the number of digits read after it; the result is <<acc, frac>> or <<-1, 0>>
ParseDigits(s, i, acc, frac) ==
  IF i > Len(s) THEN <<acc, IF frac < 0 THEN 0 ELSE frac>>
  ELSE IF s[i] = "." THEN (IF frac >= 0 THEN <<-1, 0>> ELSE ParseDigits(s, i + 1, acc, 0))
  ELSE IF DigitValue(s[i]) < 0 THEN <<-1, 0>>
  ELSE ParseDigits(s, i + 1, 10 * acc + DigitValue(s[i]),
                   IF frac < 0 THEN frac ELSE frac + 1)

StringToNumber(s) ==
  IF s = <<>> THEN Zero
  ELSE LET neg  == s[1] = "-"
           body == IF s[1] = "-" \/ s[1] = "+" THEN Tail(s) ELSE s
           r    == ParseDigits(body, 1, 0, -1)
       IN IF body = <<>> \/ body = <<".">> \/ r[1] < 0 THEN NaN
          ELSE RoundInt(IF neg THEN -r[1] ELSE r[1], -r[2])

\* A hook value is a JS number or a JS string
NumVal(x) == [t |-> "number", v |-> x, s |-> <<>>]

StrVal(s) == [t |-> "string", v |-> Zero, s |-> s]

\* Number(x)
ToNumber(x) == IF x.t = "number" THEN x.v ELSE StringToNumber(x.s)

\* String.prototype.includes
Includes(s, sub) ==
  \E i \in 1..(Len(s) - Len(sub) + 1) : SubSeq(s, i, i + Len(sub) - 1) = sub

(***************************************************************************)
(* The reference tables                                                    *)
(***************************************************************************)

MaterialKeys == {"Kanthal A1", "Nichrome (Ni80)", "SS316L", "Ni200", "Titanium (Ti)"}

materials ==
  [key \in MaterialKeys |->
     CASE key = "Kanthal A1" ->
            [rho_mm2_per_m |-> Lit(145, -2),
             note |-> <<"K", "a", "n", "t", "h", "a", "l", " ", "A", "1", " ", "(", "g", "o", "o", "d", " ", "f", "o", "r", " ", "w", "a", "t", "t", "a", "g", "e", ",", " ", "n", "o", "t", " ", "f", "o", "r", " ", "T", "C", ")">>]
       [] key = "Nichrome (Ni80)" ->
            [rho_mm2_per_m |-> Lit(109, -2),
             note |-> <<"N", "i", "c", "h", "r", "o", "m", "e", " ", "EMDASH", " ", "h", "i", "g", "h", " ", "r", "e", "s", "i", "s", "t", "i", "v", "i", "t", "y", ",", " ", "n", "o", "t", " ", "f", "o", "r", " ", "T", "C", " ", "t", "y", "p", "i", "c", "a", "l", "l", "y">>]
       [] key = "SS316L" ->
            [rho_mm2_per_m |-> Lit(75, -2),
             note |-> <<"S", "t", "a", "i", "n", "l", "e", "s", "s", " ", "S", "t", "e", "e", "l", " ", "3", "1", "6", "L", " ", "EMDASH", " ", "w", "o", "r", "k", "s", " ", "w", "i", "t", "h", " ", "T", "C", " ", "a", "n", "d", " ", "V", "W">>]
       [] key = "Ni200" ->
            [rho_mm2_per_m |-> Lit(70, -2),
             note |-> <<"N", "i", "c", "k", "e", "l", " ", "2", "0", "0", " ", "EMDASH", " ", "T", "C", " ", "o", "n", "l", "y", ",", " ", "f", "r", "a", "g", "i", "l", "e">>]
       [] key = "Titanium (Ti)" ->
            [rho_mm2_per_m |-> Lit(42, -2),
             note |-> <<"T", "i", "t", "a", "n", "i", "u", "m", " ", "EMDASH", " ", "T", "C", " ", "o", "n", "l", "y", ",", " ", "u", "s", "e", " ", "w", "i", "t", "h", " ", "c", "a", "r", "e">>]]

\* The characters of a material key
KeyChars(key) ==
  CASE key = "Kanthal A1" -> <<"K", "a", "n", "t", "h", "a", "l", " ", "A", "1">>
    [] key = "Nichrome (Ni80)" -> <<"N", "i", "c", "h", "r", "o", "m", "e", " ", "(", "N", "i", "8", "0", ")">>
    [] key = "SS316L" -> <<"S", "S", "3", "1", "6", "L">>
    [] key = "Ni200" -> <<"N", "i", "2", "0", "0">>
    [] key = "Titanium (Ti)" -> <<"T", "i", "t", "a", "n", "i", "u", "m", " ", "(", "T", "i", ")">>
    [] OTHER -> <<>>

\* Property names every object literal inherits from Object.prototype
ObjectPrototypeKeys == {"constructor", "toString", "valueOf", "hasOwnProperty", "__proto__"}

\* materials[materialKey]: the entry, an inherited property, or undefined
MaterialLookup(materialKey) ==
  IF materialKey \in MaterialKeys THEN [k |-> "entry", key |-> materialKey]
  ELSE IF materialKey \in ObjectPrototypeKeys THEN [k |-> "inherited", key |-> materialKey]
  ELSE [k |-> "undefined", key |-> materialKey]

AwgKeys == {20, 22, 24, 26, 28, 30, 32}

awgTable ==
  [a \in AwgKeys |->
     CASE a = 20 -> Lit(8128, -4)
       [] a = 22 -> Lit(6438, -4)
       [] a = 24 -> Lit(511, -3)
       [] a = 26 -> Lit(405, -3)
       [] a = 28 -> Lit(321, -3)
       [] a = 30 -> Lit(255, -3)
       [] a = 32 -> Lit(202, -3)]

(***************************************************************************)
(* The calculation functions                                               *)
(***************************************************************************)

Thousand == Lit(1000, 0)

Two == Lit(2, 0)

mmToMeters(x) == FDiv(x, Thousand)

computeLengthMeters(wrapsCount, coilID, legs) ==
  LET circMm   == FMul(MathPI, coilID)
      lengthMm == FAdd(FMul(circMm, wrapsCount), legs)
  IN mmToMeters(lengthMm)

areaMm2(diameterMm) == FMul(MathPI, MathPow2(FDiv(diameterMm, Two)))

Return(v) == [k |-> "return", v |-> v]

\* The exception a property read of undefined throws
ThrowTypeError == [k |-> "throw", v |-> NaN]

\* computeResistanceOhm with the quotient of line 57 upside down
computeResistanceOhm_inverted(materialKey, wireDiameterMm, wrapsCount, coilID, legs) ==
  LET mat == MaterialLookup(materialKey) IN
  IF mat.k = "undefined" THEN ThrowTypeError
  ELSE LET rho   == IF mat.k = "entry" THEN materials[mat.key].rho_mm2_per_m
                    ELSE NaN
           Lm    == computeLengthMeters(wrapsCount, coilID, legs)
           A_mm2 == areaMm2(wireDiameterMm)
           R     == FDiv(FMul(rho, A_mm2), Lm)
       IN Return(R)

\* The resistance [k |-> "return", v |-> R], or the thrown TypeError
computeResistanceOhm(materialKey, wireDiameterMm, wrapsCount, coilID, legs) ==
  LET mat == MaterialLookup(materialKey) IN
  IF mat.k = "undefined" THEN ThrowTypeError
  ELSE LET rho   == IF mat.k = "entry" THEN materials[mat.key].rho_mm2_per_m
                    ELSE NaN \* undefined * Lm is NaN
           Lm    == computeLengthMeters(wrapsCount, coilID, legs)
           A_mm2 == areaMm2(wireDiameterMm)
           R     == FDiv(FMul(rho, Lm), A_mm2)
       IN Return(R)

\* findWrapsForTarget with the comparison of line 64 turned around
findWrapsForTarget_le(materialKey, wireDiameterMm, coilID, legs, target, maxWraps) ==
  LET RECURSIVE loop(_)
      loop(w) ==
        IF w <= maxWraps
        THEN LET r == computeResistanceOhm(materialKey, wireDiameterMm, Lit(w, 0),
                                           coilID, legs) IN
             IF r.k = "throw" THEN r
             ELSE IF FLe(r.v, target) THEN Return([wraps |-> w, resistance |-> r.v])
             ELSE loop(w + 1)
        ELSE LET r == computeResistanceOhm(materialKey, wireDiameterMm, Lit(maxWraps, 0),
                                           coilID, legs) IN
             IF r.k = "throw" THEN r
             ELSE Return([wraps |-> maxWraps, resistance |-> r.v])
  IN loop(1)

\* lines 61-68: the for loop from w on, then the statements after it
findWrapsForTarget(materialKey, wireDiameterMm, coilID, legs, target, maxWraps) ==
  LET RECURSIVE loop(_)
      loop(w) ==
        IF w <= maxWraps
        THEN LET r == computeResistanceOhm(materialKey, wireDiameterMm, Lit(w, 0),
                                           coilID, legs) IN
             IF r.k = "throw" THEN r
             ELSE IF FGe(r.v, target) THEN Return([wraps |-> w, resistance |-> r.v])
             ELSE loop(w + 1)
        ELSE LET r == computeResistanceOhm(materialKey, wireDiameterMm, Lit(maxWraps, 0),
                                           coilID, legs) IN
             IF r.k = "throw" THEN r
             ELSE Return([wraps |-> maxWraps, resistance |-> r.v])
  IN loop(1)

\* The default of findWrapsForTarget's parameter maxWraps
DefaultMaxWraps == 60

\* The divisor guard of lines 75-76
Epsilon == Lit(1, -6)

(***************************************************************************)
(* The component.  The state hooks are the variables; the constants a      *)
(* render derives from them (lines 70-76) are state functions, computed    *)
(* afresh from the hooks of the state they are read in.                    *)
(***************************************************************************)

VARIABLES material, wireDiaMm, useAwg, awg, wraps, coilIDmm, legsMm, targetOhm,
          voltage, safetyLimitAmp,
          download,  \* the text the last step handed to the browser, <<>> if none
          fnArgs, fnPrev, fnLast  \* direct calls of the calculation functions

hooks == <<material, wireDiaMm, useAwg, awg, wraps, coilIDmm, legsMm, targetOhm,
           voltage, safetyLimitAmp>>

fnVars == <<fnArgs, fnPrev, fnLast>>

vars == <<hooks, download, fnVars>>

\* line 70
wireDiameter == IF useAwg THEN awgTable[awg] ELSE ToNumber(wireDiaMm)

\* line 71, when computeResistanceOhm returns
calcResistance == computeResistanceOhm(material, wireDiameter, wraps, coilIDmm, legsMm).v

\* line 72, when findWrapsForTarget returns
targetResult ==
  findWrapsForTarget(material, wireDiameter, coilIDmm, legsMm, targetOhm, DefaultMaxWraps).v

\* The divisor without its guard
guardedResistance_unguarded == calcResistance

\* calcResistance || 0.000001
guardedResistance == OrElse(calcResistance, Epsilon)

\* line 75
currentAtTarget == FDiv(voltage, guardedResistance)

\* line 76
powerAtTarget == FMul(MathPow2(currentAtTarget), guardedResistance)

\* The warning with >= for >
exceedsSafetyLimit_ge == FGe(currentAtTarget, safetyLimitAmp)

\* lines 172-173: the condition under which the red warning is shown
exceedsSafetyLimit == FGt(currentAtTarget, safetyLimitAmp)

\* The render of lines 70-76 throws when materials[material] is undefined
\* (line 53), and then the component shows nothing and handles no event
rendered == MaterialLookup(material).k # "undefined"

\* Number(v).toFixed(n): v rounded to n decimals, as a count of units of 10^-n
fmt(v, n) ==
  IF IsNaN(v) THEN [k |-> "NaN", units |-> 0, decimals |-> n]
  ELSE IF v.k = "inf" THEN [k |-> "Infinity", units |-> v.m, decimals |-> n]
  ELSE LET s == v.e + n
           u == IF s >= 0 THEN Abs(v.m) * 10^s
                ELSE IF s < -4 THEN 0
                ELSE (2 * Abs(v.m) + 10^(-s)) \div (2 * 10^(-s))
       IN [k |-> "fixed", units |-> Sign(v.m) * u, decimals |-> n]

\* The mode taken from the note alone
profileMode_noteOnly(materialV) ==
  IF Includes(materials[materialV].note, <<"T", "C">>) THEN "TC-SS" ELSE "Power"

\* line 215
profileMode(materialV) ==
  IF Includes(materials[materialV].note, <<"T", "C">>)
       \/ Includes(KeyChars(materialV), <<"S", "S">>)
       \/ Includes(KeyChars(materialV), <<"N", "i">>)
  THEN (IF materialV = "SS316L" \/ materialV = "Ni200"
             \/ Includes(KeyChars(materialV), <<"T", "i">>)
        THEN "TC-SS" ELSE "Power")
  ELSE "Power"

\* A temperature for SS316L and Ni200
profileTemperature_anyNickel(materialV) ==
  IF materialV = "SS316L" \/ materialV = "Ni200" THEN <<220>> ELSE <<>>

\* line 216; undefined is modelled as <<>>
profileTemperature(materialV) == IF materialV = "SS316L" THEN <<220>> ELSE <<>>

\* line 217
profilePower(power) == MathMin(Lit(50, 0), MathRound(power))

\* line 218
profilePreheatPower(power) ==
  MathRound(MathMin(Lit(80, 0), MathMax(Lit(20, 0), FMul(power, Lit(14, -1)))))

\* line 219
profilePreheatTime == 1

\* line 220
profileCutoff == 8

\* lines 213-222
buildProfile(materialV, power, resistance) ==
  [Name         |-> "DAB-CUSTOM",
   Mode         |-> profileMode(materialV),
   Temperature  |-> profileTemperature(materialV),
   Power        |-> profilePower(power),
   PreheatPower |-> profilePreheatPower(power),
   PreheatTime  |-> profilePreheatTime,
   Cutoff       |-> profileCutoff,
   Resistance   |-> fmt(resistance, 4)]

\* ${profile.Temperature ? `Temperature=${profile.Temperature}\n` : ''}
temperatureLines(profile) ==
  IF profile.Temperature # <<>> /\ profile.Temperature[1] # 0
  THEN << <<"Temperature=", profile.Temperature[1]>> >>
  ELSE <<>>

\* line 223: the text as its lines, each the literal part and the value put in
serialize(profile) ==
  << <<"; Generated by trhacknon Coil Builder", "">>,
     <<"[ProfileCustom]", "">>,
     <<"Name=", profile.Name>>,
     <<"Mode=", profile.Mode>> >>
  \o temperatureLines(profile)
  \o << <<"Power=", profile.Power>>,
        <<"PreheatPower=", profile.PreheatPower>>,
        <<"PreheatTime=", profile.PreheatTime>>,
        <<"Cutoff=", profile.Cutoff>>,
        <<"; EstimatedResistance=", profile.Resistance>> >>

(***************************************************************************)
(* The values the user enters                                              *)
(***************************************************************************)

\* The options of the AWG select: Object.keys(awgTable)
AwgChoices == AwgKeys

\* What is typed into the wire diameter field: "0", "1000", "-0.4"
TypedDiameters == { <<"0">>, <<"1", "0", "0", "0">>, <<"-", "0", ".", "4">> }

WrapsInputs == {Lit(5, 0), Zero}

CoilIDInputs == {Lit(3, 0), Lit(25, -1)}

LegsInputs == {Lit(6, 0), Zero}

TargetInputs == {Lit(25, -2), Lit(5, -1)}

VoltageInputs == {Lit(74, -1), Lit(37, -1)}

SafetyLimitInputs == {Lit(30, 0), Lit(74, 5)}

(***************************************************************************)
(* The component's steps.  A change event fires when the control's value   *)
(* changes, so every handler is given a value other than the current one.  *)
(* React renders again after each; the render reads the new hooks.         *)
(***************************************************************************)

\* lines 27-36
InitHooks ==
  /\ material = "SS316L"
  /\ wireDiaMm = NumVal(awgTable[26])
  /\ useAwg = TRUE
  /\ awg = 26
  /\ wraps = Lit(5, 0)
  /\ coilIDmm = Lit(3, 0)
  /\ legsMm = Lit(6, 0)
  /\ targetOhm = Lit(25, -2)
  /\ voltage = Lit(74, -1)
  /\ safetyLimitAmp = Lit(30, 0)
  /\ download = <<>>

Init ==
  /\ InitHooks
  /\ fnArgs = <<>>
  /\ fnPrev = <<>>
  /\ fnLast = <<>>

\* line 97
SetMaterial(m) ==
  /\ rendered
  /\ m # material
  /\ material' = m
  /\ download' = <<>>
  /\ UNCHANGED <<wireDiaMm, useAwg, awg, wraps, coilIDmm, legsMm, targetOhm, voltage,
                 safetyLimitAmp, fnVars>>

\* line 105: the checkbox takes the other value
SetUseAwg ==
  /\ rendered
  /\ useAwg' = ~useAwg
  /\ download' = <<>>
  /\ UNCHANGED <<material, wireDiaMm, awg, wraps, coilIDmm, legsMm, targetOhm, voltage,
                 safetyLimitAmp, fnVars>>

\* The AWG select without setWireDiaMm
SelectAwg_noSync(a) ==
  /\ rendered
  /\ useAwg
  /\ a # awg
  /\ awg' = a
  /\ download' = <<>>
  /\ UNCHANGED <<material, wireDiaMm, useAwg, wraps, coilIDmm, legsMm, targetOhm, voltage,
                 safetyLimitAmp, fnVars>>

\* line 113: the select is shown in AWG mode only
SelectAwg(a) ==
  /\ rendered
  /\ useAwg
  /\ a # awg
  /\ awg' = a
  /\ wireDiaMm' = NumVal(awgTable[a])
  /\ download' = <<>>
  /\ UNCHANGED <<material, useAwg, wraps, coilIDmm, legsMm, targetOhm, voltage,
                 safetyLimitAmp, fnVars>>

\* line 122: the field is shown in direct mode only
TypeWireDiameter(s) ==
  /\ rendered
  /\ ~useAwg
  /\ StrVal(s) # wireDiaMm
  /\ wireDiaMm' = StrVal(s)
  /\ download' = <<>>
  /\ UNCHANGED <<material, useAwg, awg, wraps, coilIDmm, legsMm, targetOhm, voltage,
                 safetyLimitAmp, fnVars>>

\* line 129
SetWraps(n) ==
  /\ rendered
  /\ n # wraps
  /\ wraps' = n
  /\ download' = <<>>
  /\ UNCHANGED <<material, wireDiaMm, useAwg, awg, coilIDmm, legsMm, targetOhm, voltage,
                 safetyLimitAmp, fnVars>>

\* line 133
SetCoilIDmm(n) ==
  /\ rendered
  /\ n # coilIDmm
  /\ coilIDmm' = n
  /\ download' = <<>>
  /\ UNCHANGED <<material, wireDiaMm, useAwg, awg, wraps, legsMm, targetOhm, voltage,
                 safetyLimitAmp, fnVars>>

\* line 140
SetLegsMm(n) ==
  /\ rendered
  /\ n # legsMm
  /\ legsMm' = n
  /\ download' = <<>>
  /\ UNCHANGED <<material, wireDiaMm, useAwg, awg, wraps, coilIDmm, targetOhm, voltage,
                 safetyLimitAmp, fnVars>>

\* line 144
SetVoltage(n) ==
  /\ rendered
  /\ n # voltage
  /\ voltage' = n
  /\ download' = <<>>
  /\ UNCHANGED <<material, wireDiaMm, useAwg, awg, wraps, coilIDmm, legsMm, targetOhm,
                 safetyLimitAmp, fnVars>>

\* line 150
SetTargetOhm(n) ==
  /\ rendered
  /\ n # targetOhm
  /\ targetOhm' = n
  /\ download' = <<>>
  /\ UNCHANGED <<material, wireDiaMm, useAwg, awg, wraps, coilIDmm, legsMm, voltage,
                 safetyLimitAmp, fnVars>>

\* line 202
SetSafetyLimitAmp(n) ==
  /\ rendered
  /\ n # safetyLimitAmp
  /\ safetyLimitAmp' = n
  /\ download' = <<>>
  /\ UNCHANGED <<material, wireDiaMm, useAwg, awg, wraps, coilIDmm, legsMm, targetOhm,
                 voltage, fnVars>>

\* lines 212-232: the click handler reads the constants of the render it was
\* created in and sets no hook
ExportCfg ==
  /\ rendered
  /\ download' = serialize(buildProfile(material, powerAtTarget, calcResistance))
  /\ UNCHANGED <<hooks, fnVars>>

Next ==
  \/ \E m \in MaterialKeys : SetMaterial(m)
  \/ SetUseAwg
  \/ \E a \in AwgChoices : SelectAwg(a)
  \/ \E s \in TypedDiameters : TypeWireDiameter(s)
  \/ \E n \in WrapsInputs : SetWraps(n)
  \/ \E n \in CoilIDInputs : SetCoilIDmm(n)
  \/ \E n \in LegsInputs : SetLegsMm(n)
  \/ \E n \in VoltageInputs : SetVoltage(n)
  \/ \E n \in TargetInputs : SetTargetOhm(n)
  \/ \E n \in SafetyLimitInputs : SetSafetyLimitAmp(n)
  \/ ExportCfg

Spec == Init /\ [][Next]_vars

(***************************************************************************)
(* The calculation functions called on their own: the arguments are fixed  *)
(* at the start, each step is one call, and the last two calls are kept.   *)
(***************************************************************************)

\* The largest wrap count passed to computeResistanceOhm, and the middle
\* value of maxWraps passed to findWrapsForTarget
MaxWrapsArg == 3

\* Catalog keys, a key no object has, and a key inherited from Object.prototype
FnMaterialKeys == MaterialKeys \cup {"Copper", "toString"}

FnDiameters == {awgTable[26], awgTable[30]}

FnCoilIDs == {Lit(3, 0), Lit(25, -1)}

FnLegs == {Lit(6, 0), Zero}

FnTargets == {Lit(25, -2), Lit(5, -1), Lit(100, 0)}

FnMaxWraps == {1, MaxWrapsArg, DefaultMaxWraps}

FnArgs ==
  [materialKey : FnMaterialKeys, wireDiameterMm : FnDiameters, coilIDmm : FnCoilIDs,
   legsMm : FnLegs, targetOhm : FnTargets, maxWraps : FnMaxWraps]

InitFn ==
  /\ InitHooks
  /\ fnArgs \in FnArgs
  /\ fnPrev = <<>>
  /\ fnLast = <<>>

\* computeResistanceOhm(materialKey, wireDiameterMm, w, coilIDmm, legsMm)
CallComputeResistanceOhm(w) ==
  /\ fnLast' = [fn    |-> "computeResistanceOhm",
                wraps |-> w,
                out   |-> computeResistanceOhm(fnArgs.materialKey, fnArgs.wireDiameterMm,
                                               Lit(w, 0), fnArgs.coilIDmm, fnArgs.legsMm)]
  /\ fnPrev' = fnLast
  /\ UNCHANGED <<hooks, download, fnArgs>>

\* findWrapsForTarget(materialKey, wireDiameterMm, coilIDmm, legsMm, targetOhm, maxWraps)
CallFindWrapsForTarget ==
  /\ fnLast' = [fn    |-> "findWrapsForTarget",
                wraps |-> fnArgs.maxWraps,
                out   |-> findWrapsForTarget(fnArgs.materialKey, fnArgs.wireDiameterMm,
                                             fnArgs.coilIDmm, fnArgs.legsMm,
                                             fnArgs.targetOhm, fnArgs.maxWraps)]
  /\ fnPrev' = fnLast
  /\ UNCHANGED <<hooks, download, fnArgs>>

NextFn ==
  \/ \E w \in 1..MaxWrapsArg : CallComputeResistanceOhm(w)
  \/ CallFindWrapsForTarget

SpecFn == InitFn /\ [][NextFn]_vars

(***************************************************************************)
(* Properties                                                              *)
(***************************************************************************)

\* The resistance at w wraps for the arguments of the direct calls
FnResistance(w) ==
  computeResistanceOhm(fnArgs.materialKey, fnArgs.wireDiameterMm, Lit(w, 0),
                       fnArgs.coilIDmm, fnArgs.legsMm).v

\* The arguments of the direct calls are a catalog material, diameters > 0,
\* a leg length >= 0, a target > 0 and maxWraps >= 1
FnArgsValid ==
  /\ fnArgs.materialKey \in MaterialKeys
  /\ FGt(fnArgs.wireDiameterMm, Zero)
  /\ FGt(fnArgs.coilIDmm, Zero)
  /\ FGe(fnArgs.legsMm, Zero)
  /\ FGt(fnArgs.targetOhm, Zero)
  /\ fnArgs.maxWraps >= 1

FoundWraps == fnLast # <<>> /\ fnLast.fn = "findWrapsForTarget" /\ FnArgsValid

\* C1: for valid arguments findWrapsForTarget returns the smallest wraps in
\* 1..maxWraps whose resistance is >= targetOhm, with that resistance; if no
\* wraps in 1..maxWraps reaches the target it returns maxWraps with the
\* resistance at maxWraps.  No smaller wrap count meets the target.
C1_SmallestWrapsOrSaturated ==
  FoundWraps =>
    /\ fnLast.out.k = "return"
    /\ fnLast.out.v.wraps \in 1..fnArgs.maxWraps
    /\ fnLast.out.v.resistance = FnResistance(fnLast.out.v.wraps)
    /\ \A w \in 1..(fnLast.out.v.wraps - 1) : ~FGe(FnResistance(w), fnArgs.targetOhm)
    /\ \/ FGe(fnLast.out.v.resistance, fnArgs.targetOhm)
       \/ /\ fnLast.out.v.wraps = fnArgs.maxWraps
          /\ \A w \in 1..fnArgs.maxWraps : ~FGe(FnResistance(w), fnArgs.targetOhm)

\* A search that passed wraps below the target and stopped before maxWraps
C1_Witness ==
  /\ FoundWraps
  /\ fnLast.out.v.wraps > 1
  /\ fnLast.out.v.wraps < fnArgs.maxWraps
  /\ FGe(fnLast.out.v.resistance, fnArgs.targetOhm)

TwoResistances ==
  /\ fnPrev # <<>>
  /\ fnPrev.fn = "computeResistanceOhm"
  /\ fnLast.fn = "computeResistanceOhm"
  /\ FnArgsValid

\* C2: with the material, the wire diameter, the inner diameter and the leg
\* length fixed and valid, the resistance at the larger of two wrap counts is
\* >= the resistance at the smaller, and every resistance is > 0.
C2_MonotonicInWraps ==
  TwoResistances =>
    /\ fnPrev.out.k = "return" /\ fnLast.out.k = "return"
    /\ FGt(fnPrev.out.v, Zero) /\ FGt(fnLast.out.v, Zero)
    /\ fnPrev.wraps < fnLast.wraps => FGe(fnLast.out.v, fnPrev.out.v)
    /\ fnPrev.wraps > fnLast.wraps => FGe(fnPrev.out.v, fnLast.out.v)

\* Two calls with different wrap counts whose resistances differ
C2_Witness ==
  /\ TwoResistances
  /\ fnPrev.wraps < fnLast.wraps
  /\ FGt(fnLast.out.v, fnPrev.out.v)

\* C3: whenever the wire diameter is 0 or negative the resistance computation
\* fails instead of returning a number.
C3_NonPositiveDiameterFails ==
  FLe(wireDiameter, Zero) =>
    computeResistanceOhm(material, wireDiameter, wraps, coilIDmm, legsMm).k = "throw"

\* C4: for a material id that is not a catalog entry the resistance
\* computation fails and produces no value.
C4_UnknownMaterialFails ==
  (fnLast # <<>> /\ fnArgs.materialKey \notin MaterialKeys) => fnLast.out.k = "throw"

\* The voltage is > 0 and the resistance is a number >= 0
ElectricalInputsValid ==
  FGt(voltage, Zero) /\ IsFinite(calcResistance) /\ FGe(calcResistance, Zero)

\* C5 as stated: current = voltage / max(resistance, epsilon), finite, and
\* power = current^2 * resistance, for every voltage > 0 and resistance >= 0.
C5_Original ==
  ElectricalInputsValid =>
    /\ currentAtTarget = FDiv(voltage, MathMax(calcResistance, Epsilon))
    /\ IsFinite(currentAtTarget)
    /\ powerAtTarget = FMul(MathPow2(currentAtTarget), calcResistance)

\* C5 amended: the divisor is the resistance itself unless the resistance is
\* exactly 0, and then it is epsilon; it is never 0; current = voltage /
\* divisor and power = current^2 * divisor.  For a resistance >= epsilon this
\* is voltage / max(resistance, epsilon) and current^2 * resistance.
C5_ZeroGuardedDivisor ==
  ElectricalInputsValid =>
    LET divisor == IF calcResistance = Zero THEN Epsilon ELSE calcResistance IN
    /\ divisor # Zero
    /\ currentAtTarget = FDiv(voltage, divisor)
    /\ IsFinite(currentAtTarget)
    /\ powerAtTarget = FMul(MathPow2(currentAtTarget), divisor)
    /\ FGe(calcResistance, Epsilon) =>
         /\ currentAtTarget = FDiv(voltage, MathMax(calcResistance, Epsilon))
         /\ powerAtTarget = FMul(MathPow2(currentAtTarget), calcResistance)

\* A resistance of exactly 0 under a positive voltage
C5_Witness == ElectricalInputsValid /\ calcResistance = Zero

\* C6: the warning is shown exactly when the current is strictly above the
\* limit; a current equal to the limit, or below it, is within the limit.
C6_StrictSafetyComparison ==
  (~IsNaN(currentAtTarget) /\ FGt(safetyLimitAmp, Zero)) =>
    /\ exceedsSafetyLimit <=> ~FLe(currentAtTarget, safetyLimitAmp)
    /\ currentAtTarget = safetyLimitAmp => ~exceedsSafetyLimit

\* The current equals the limit
C6_Witness == currentAtTarget = safetyLimitAmp /\ ~exceedsSafetyLimit

\* The value of the first line of the download that starts with key
RECURSIVE LineIndex(_, _, _)
LineIndex(text, key, i) ==
  IF i > Len(text) THEN 0
  ELSE IF text[i][1] = key THEN i
  ELSE LineIndex(text, key, i + 1)

HasLine(text, key) == LineIndex(text, key, 1) # 0

LineValue(text, key) == text[LineIndex(text, key, 1)][2]

Exported == download # <<>>

\* C7: the exported Mode is TC-SS exactly for SS316L, Ni200 and titanium, and
\* Power for every other material of the catalog.
C7_ModeByMaterial ==
  Exported =>
    /\ HasLine(download, "Mode=")
    /\ LineValue(download, "Mode=") =
         IF material \in {"SS316L", "Ni200", "Titanium (Ti)"} THEN "TC-SS" ELSE "Power"

\* An export for Kanthal A1, whose note contains "TC"
C7_Witness ==
  /\ Exported
  /\ material = "Kanthal A1"
  /\ LineValue(download, "Mode=") = "Power"

\* C8: the text has the line Temperature=220 exactly when the material is
\* SS316L; otherwise it has no Temperature line and the Power line follows
\* the Mode line directly.
C8_TemperatureOnlySS316L ==
  Exported =>
    /\ HasLine(download, "Temperature=") <=> material = "SS316L"
    /\ HasLine(download, "Temperature=") => LineValue(download, "Temperature=") = 220
    /\ material # "SS316L" =>
         LineIndex(download, "Power=", 1) = LineIndex(download, "Mode=", 1) + 1
    /\ material = "SS316L" =>
         /\ LineIndex(download, "Temperature=", 1) = LineIndex(download, "Mode=", 1) + 1
         /\ LineIndex(download, "Power=", 1) = LineIndex(download, "Mode=", 1) + 2

\* An export in mode TC-SS without a Temperature line
C8_Witness ==
  /\ Exported
  /\ material = "Ni200"
  /\ ~HasLine(download, "Temperature=")
  /\ LineValue(download, "Mode=") = "TC-SS"

\* C9: Power = min(50, round(power)) and PreheatPower = round(clamp(power *
\* 1.4, 20, 80)), so Power is at most 50 and PreheatPower lies in 20..80;
\* PreheatTime is 1 and Cutoff is 8.
C9_PowerFieldsClamped ==
  Exported =>
    /\ LineValue(download, "Power=") = MathMin(Lit(50, 0), MathRound(powerAtTarget))
    /\ LineValue(download, "PreheatPower=") =
         MathRound(MathMin(Lit(80, 0), MathMax(Lit(20, 0), FMul(powerAtTarget, Lit(14, -1)))))
    /\ FLe(LineValue(download, "Power="), Lit(50, 0))
    /\ FGe(LineValue(download, "PreheatPower="), Lit(20, 0))
    /\ FLe(LineValue(download, "PreheatPower="), Lit(80, 0))
    /\ LineValue(download, "PreheatTime=") = 1
    /\ LineValue(download, "Cutoff=") = 8

\* C10 as stated: one reconciled diameter, and in AWG mode the stored
\* direct-diameter field equals the table's diameter of the selected AWG.
C10_Original ==
  /\ useAwg => wireDiameter = awgTable[awg]
  /\ ~useAwg => wireDiameter = ToNumber(wireDiaMm)
  /\ useAwg => ToNumber(wireDiaMm) = awgTable[awg]

\* C10 amended: one reconciled diameter; the stored field is the table's
\* diameter of the selected AWG unless a diameter was typed since the last
\* gauge selection, and then it is the typed text, also in AWG mode.
C10_ReconciledDiameter ==
  /\ useAwg => wireDiameter = awgTable[awg]
  /\ ~useAwg => wireDiameter = ToNumber(wireDiaMm)
  /\ wireDiaMm.t = "number" => wireDiaMm.v = awgTable[awg]
  /\ wireDiaMm.t = "string" => wireDiaMm.s \in TypedDiameters

\* AWG mode switched back on over a typed diameter that differs from the
\* gauge's
C10_Witness ==
  /\ useAwg
  /\ wireDiaMm.t = "string"
  /\ ToNumber(wireDiaMm) # awgTable[awg]
====
